---- MODULE Spec2Model ----
(***************************************************************************)
(* Model of gradus (gradus_enhanced.c / gradus_fixed.c): the temperature   *)
(* scale registry, the conversion engine and the command-line driver.      *)
(*                                                                         *)
(* The C type double is modelled as IEEE-754 binary64 with round to        *)
(* nearest, ties to even: every arithmetic operation is the exact          *)
(* operation on the operands followed by RoundDouble.  Mantissas do not    *)
(* fit the integers of the model checker, so naturals are kept as          *)
(* little-endian sequences of limbs of LimbBits bits.                      *)
(***************************************************************************)
EXTENDS Integers, Sequences, FiniteSets, TLC

(***************************************************************************)
(* Arbitrary-size naturals                                                 *)
(***************************************************************************)
Base == 2 ^ 15

RECURSIVE IntBitLen(_)
IntBitLen(n) == IF n = 0 THEN 0 ELSE 1 + IntBitLen(n \div 2)

LimbBits == IntBitLen(Base) - 1

RECURSIVE BNNorm(_)
BNNorm(a) ==
  IF a = <<>> THEN <<>>
  ELSE IF a[Len(a)] = 0 THEN BNNorm(SubSeq(a, 1, Len(a) - 1))
  ELSE a

RECURSIVE BNFromInt(_)
BNFromInt(n) ==
  IF n = 0 THEN <<>> ELSE <<n % Base>> \o BNFromInt(n \div Base)

RECURSIVE BNToInt(_)
BNToInt(a) ==
  IF a = <<>> THEN 0 ELSE Head(a) + Base * BNToInt(Tail(a))

BNLimb(a, i) == IF i >= 1 /\ i <= Len(a) THEN a[i] ELSE 0

BNMaxLen(a, b) == IF Len(a) >= Len(b) THEN Len(a) ELSE Len(b)

RECURSIVE BNAddFrom(_, _, _, _)
BNAddFrom(a, b, i, c) ==
  IF i > BNMaxLen(a, b) THEN (IF c = 0 THEN <<>> ELSE <<c>>)
  ELSE LET x == BNLimb(a, i) + BNLimb(b, i) + c
       IN  <<x % Base>> \o BNAddFrom(a, b, i + 1, x \div Base)

BNAdd(a, b) == BNAddFrom(a, b, 1, 0)

\* a - b for a >= b
RECURSIVE BNSubFrom(_, _, _, _)
BNSubFrom(a, b, i, c) ==
  IF i > Len(a) THEN <<>>
  ELSE LET x == BNLimb(a, i) - BNLimb(b, i) - c
       IN  IF x < 0 THEN <<x + Base>> \o BNSubFrom(a, b, i + 1, 1)
           ELSE <<x>> \o BNSubFrom(a, b, i + 1, 0)

BNSub(a, b) == BNNorm(BNSubFrom(a, b, 1, 0))

\* -1, 0, 1 as a < b, a = b, a > b
RECURSIVE BNCmpFrom(_, _, _)
BNCmpFrom(a, b, i) ==
  IF i = 0 THEN 0
  ELSE IF a[i] < b[i] THEN -1
  ELSE IF a[i] > b[i] THEN 1
  ELSE BNCmpFrom(a, b, i - 1)

BNCmp(a, b) ==
  IF Len(a) < Len(b) THEN -1
  ELSE IF Len(a) > Len(b) THEN 1
  ELSE BNCmpFrom(a, b, Len(a))

RECURSIVE BNMulSmallFrom(_, _, _, _)
BNMulSmallFrom(a, k, i, c) ==
  IF i > Len(a) THEN (IF c = 0 THEN <<>> ELSE <<c>>)
  ELSE LET x == a[i] * k + c
       IN  <<x % Base>> \o BNMulSmallFrom(a, k, i + 1, x \div Base)

\* a * k for 0 <= k < Base
BNMulSmall(a, k) == IF k = 0 THEN <<>> ELSE BNMulSmallFrom(a, k, 1, 0)

RECURSIVE BNMulFrom(_, _, _)
BNMulFrom(a, b, j) ==
  IF j > Len(b) THEN <<>>
  ELSE BNAdd(BNMulSmall(a, b[j]),
             LET rest == BNMulFrom(a, b, j + 1)
             IN  IF rest = <<>> THEN <<>> ELSE <<0>> \o rest)

BNMul(a, b) == IF a = <<>> THEN <<>> ELSE BNMulFrom(a, b, 1)

\* floor(a / k) for 0 < k < Base, from the most significant limb down
RECURSIVE BNDivSmallFrom(_, _, _, _)
BNDivSmallFrom(a, k, i, r) ==
  IF i = 0 THEN <<>>
  ELSE LET x == r * Base + a[i]
       IN  BNDivSmallFrom(a, k, i - 1, x % k) \o <<x \div k>>

BNDivSmall(a, k) == BNNorm(BNDivSmallFrom(a, k, Len(a), 0))

RECURSIVE BNZeros(_)
BNZeros(n) == IF n = 0 THEN <<>> ELSE <<0>> \o BNZeros(n - 1)

BNShl(a, n) ==
  IF a = <<>> THEN <<>>
  ELSE BNZeros(n \div LimbBits) \o BNMulSmall(a, 2 ^ (n % LimbBits))

BNShr(a, n) ==
  IF n \div LimbBits >= Len(a) THEN <<>>
  ELSE BNDivSmall(SubSeq(a, (n \div LimbBits) + 1, Len(a)), 2 ^ (n % LimbBits))

BNBitLen(a) ==
  IF a = <<>> THEN 0 ELSE LimbBits * (Len(a) - 1) + IntBitLen(a[Len(a)])

\* bit i of a, bit 0 the least significant
BNBit(a, i) == (BNLimb(a, (i \div LimbBits) + 1) \div (2 ^ (i % LimbBits))) % 2

\* TRUE iff some of the n low bits of a is set
BNLowBitsSet(a, n) == BNShl(BNShr(a, n), n) # a

\* floor(r / d) for r < d * Base and d with its top limb at least Base / 2:
\* the estimate from the two top limbs of r is at most 2 too large
BNDivFit(r, d, q0) ==
  IF BNCmp(BNMulSmall(d, q0), r) <= 0 THEN q0
  ELSE IF BNCmp(BNMulSmall(d, q0 - 1), r) <= 0 THEN q0 - 1
  ELSE q0 - 2

BNDivEstimate(est) == IF est > Base - 1 THEN Base - 1 ELSE est

BNDivDigit(r, d) ==
  BNDivFit(r, d,
    BNDivEstimate((BNLimb(r, Len(d) + 1) * Base + BNLimb(r, Len(d)))
                  \div d[Len(d)]))

\* long division limb by limb, from limb i of n down: <<quotient, remainder>>
RECURSIVE BNDivLimbs(_, _, _, _, _)
BNDivTake(n, d, i, q, r2, dg) ==
  BNDivLimbs(n, d, i - 1, <<dg>> \o q, BNSub(r2, BNMulSmall(d, dg)))

BNDivStep(n, d, i, q, r2) == BNDivTake(n, d, i, q, r2, BNDivDigit(r2, d))

BNDivLimbs(n, d, i, q, r) ==
  IF i = 0 THEN <<BNNorm(q), r>>
  ELSE BNDivStep(n, d, i, q, BNNorm(<<n[i]>> \o r))

\* the division of n1 = n * 2^s by d1 = d * 2^s, the remainder scaled back
BNDivUnscale(res, s) == <<res[1], BNShr(res[2], s)>>

BNDivScaled(n1, d1, s) ==
  BNDivUnscale(BNDivLimbs(n1, d1, Len(n1), <<>>, <<>>), s)

BNDivBy(n, d, s) == BNDivScaled(BNShl(n, s), BNShl(d, s), s)

\* <<floor(n / d), n % d>> for d > 0
BNDivMod(n, d) == BNDivBy(n, d, LimbBits - IntBitLen(d[Len(d)]))

(***************************************************************************)
(* IEEE-754 binary64.  A double is [neg, m, e] with value (-1)^neg * m *   *)
(* 2^e; a nonzero double has a mantissa of exactly MantBits bits, zero has *)
(* m = <<>> and e = 0 and keeps its sign.  The values the driver can hand  *)
(* to the engine are far from the exponent limits, so subnormals and       *)
(* overflow to infinity do not arise in the arithmetic.                    *)
(***************************************************************************)
MantBits == 53

DZero(neg) == [neg |-> neg, m |-> <<>>, e |-> 0]

DIsZero(x) == x.m = <<>>

\* round m * 2^e (plus, when sticky, a nonzero fraction below the last bit)
\* q1 * 2^e, q1 of MantBits bits or, after a carry, 2^MantBits
RoundCarry(neg, q1, e) ==
  IF BNBitLen(q1) > MantBits
  THEN [neg |-> neg, m |-> BNShr(q1, 1), e |-> e + 1]
  ELSE [neg |-> neg, m |-> q1, e |-> e]

\* q cut after its last bit: guard is the first bit cut, rest the others
RoundNearestEven(q, guard, rest) ==
  IF guard /\ (rest \/ BNBit(q, 0) = 1) THEN BNAdd(q, <<1>>) ELSE q

RoundShift(neg, m, e, sticky, sh) ==
  RoundCarry(neg,
             RoundNearestEven(BNShr(m, sh), BNBit(m, sh - 1) = 1,
                              sticky \/ BNLowBitsSet(m, sh - 1)),
             e + sh)

RoundLen(neg, m, e, sticky, L) ==
  IF L = 0 THEN DZero(neg)
  ELSE IF L <= MantBits
  THEN [neg |-> neg, m |-> BNShl(m, MantBits - L), e |-> e - (MantBits - L)]
  ELSE RoundShift(neg, m, e, sticky, L - MantBits)

RoundDouble(neg, m, e, sticky) == RoundLen(neg, m, e, sticky, BNBitLen(m))

DNeg(x) == [x EXCEPT !.neg = ~x.neg]

DAbs(x) == [x EXCEPT !.neg = FALSE]

DFromInt(n) ==
  RoundDouble(n < 0, BNFromInt(IF n < 0 THEN -n ELSE n), 0, FALSE)

\* mx * 2^e and my * 2^e are |x| and |y|, c compares them
DAddCompared(x, y, mx, my, e, c) ==
  IF x.neg # y.neg /\ c = 0 THEN DZero(FALSE)
  ELSE RoundDouble(IF x.neg = y.neg \/ c > 0 THEN x.neg ELSE y.neg,
                   IF x.neg = y.neg THEN BNAdd(mx, my)
                   ELSE IF c > 0 THEN BNSub(mx, my) ELSE BNSub(my, mx),
                   e, FALSE)

DAddAligned(x, y, mx, my, e) == DAddCompared(x, y, mx, my, e, BNCmp(mx, my))

DAddAt(x, y, e) ==
  DAddAligned(x, y, BNShl(x.m, x.e - e), BNShl(y.m, y.e - e), e)

DAdd(x, y) ==
  IF DIsZero(x) /\ DIsZero(y) THEN DZero(x.neg /\ y.neg)
  ELSE IF DIsZero(x) THEN y
  ELSE IF DIsZero(y) THEN x
  ELSE DAddAt(x, y, IF x.e <= y.e THEN x.e ELSE y.e)

DSub(x, y) == DAdd(x, DNeg(y))

DMul(x, y) ==
  IF DIsZero(x) \/ DIsZero(y) THEN DZero(x.neg # y.neg)
  ELSE RoundDouble(x.neg # y.neg, BNMul(x.m, y.m), x.e + y.e, FALSE)

\* x / y for y nonzero
DDivRound(x, y, qr) ==
  RoundDouble(x.neg # y.neg, qr[1], x.e - y.e - (MantBits + 3), qr[2] # <<>>)

DDiv(x, y) ==
  IF DIsZero(x) THEN DZero(x.neg # y.neg)
  ELSE DDivRound(x, y, BNDivMod(BNShl(x.m, MantBits + 3), y.m))

\* x < y
DLt(x, y) ==
  IF DIsZero(x) /\ DIsZero(y) THEN FALSE
  ELSE IF DIsZero(x) THEN ~y.neg
  ELSE IF DIsZero(y) THEN x.neg
  ELSE IF x.neg # y.neg THEN x.neg
  ELSE LET c == IF x.e # y.e THEN (IF x.e < y.e THEN -1 ELSE 1)
                ELSE BNCmp(x.m, y.m)
       IN  IF x.neg THEN c > 0 ELSE c < 0

\* x == y in C: the two zeros compare equal
DEq(x, y) == (DIsZero(x) /\ DIsZero(y)) \/ x = y

\* the double nearest to n / d, as the compiler and strtod read a decimal
DLit(n, d) == DDiv(DFromInt(n), DFromInt(d))

\* the exact value of |x - y| as <<m, e>>, that is m * 2^e
DAbsDiff(x, y) ==
  IF DIsZero(x) THEN <<y.m, y.e>>
  ELSE IF DIsZero(y) THEN <<x.m, x.e>>
  ELSE LET e  == IF x.e <= y.e THEN x.e ELSE y.e
           mx == BNShl(x.m, x.e - e)
           my == BNShl(y.m, y.e - e)
       IN  IF x.neg # y.neg THEN <<BNAdd(mx, my), e>>
           ELSE IF BNCmp(mx, my) >= 0 THEN <<BNSub(mx, my), e>>
           ELSE <<BNSub(my, mx), e>>

\* |x - y| < n / d, decided exactly (n, d positive integers)
DWithin(x, y, n, d) ==
  LET df == DAbsDiff(x, y)
      md == BNMul(df[1], BNFromInt(d))
  IN  IF df[2] >= 0 THEN BNCmp(BNShl(md, df[2]), BNFromInt(n)) < 0
      ELSE BNCmp(md, BNShl(BNFromInt(n), -df[2])) < 0

(***************************************************************************)
(* Constants of the conversions                                            *)
(***************************************************************************)
FAHRENHEIT_RATIO == DDiv(DFromInt(9), DFromInt(5))
CELSIUS_RATIO == DDiv(DFromInt(5), DFromInt(9))
ABSOLUTE_ZERO_CELSIUS == DNeg(DLit(27315, 100))
ABSOLUTE_ZERO_FAHRENHEIT == DNeg(DLit(45967, 100))
REAUMUR_RATIO == DDiv(DFromInt(4), DFromInt(5))
DELISLE_RATIO == DDiv(DFromInt(3), DFromInt(2))
NEWTON_RATIO == DDiv(DFromInt(33), DFromInt(100))
ROMER_RATIO == DDiv(DFromInt(21), DFromInt(40))
ROMER_OFFSET == DLit(75, 10)
DELISLE_BASE == DFromInt(100)

(***************************************************************************)
(* The sixteen conversion functions                                        *)
(***************************************************************************)
Celsius_to_Fahrenheit(c) == DAdd(DMul(c, FAHRENHEIT_RATIO), DFromInt(32))

Fahrenheit_to_Celsius(f) == DMul(DSub(f, DFromInt(32)), CELSIUS_RATIO)

\* mutant: the offset added with the wrong sign
Celsius_to_Kelvin_plus(c) == DAdd(c, ABSOLUTE_ZERO_CELSIUS)

Celsius_to_Kelvin(c) == DSub(c, ABSOLUTE_ZERO_CELSIUS)

Kelvin_to_Celsius(k) == DAdd(k, ABSOLUTE_ZERO_CELSIUS)

Celsius_to_Rankine(c) == DMul(DSub(c, ABSOLUTE_ZERO_CELSIUS), FAHRENHEIT_RATIO)

Rankine_to_Celsius(r) ==
  DMul(DAdd(DSub(r, ABSOLUTE_ZERO_FAHRENHEIT), DFromInt(32)), CELSIUS_RATIO)

Celsius_to_Reaumur(c) == DMul(c, REAUMUR_RATIO)

Reaumur_to_Celsius(re) == DDiv(re, REAUMUR_RATIO)

Celsius_to_Delisle(c) == DMul(DSub(DELISLE_BASE, c), DELISLE_RATIO)

Delisle_to_Celsius(de) == DSub(DELISLE_BASE, DDiv(de, DELISLE_RATIO))

Celsius_to_Newton(c) == DMul(c, NEWTON_RATIO)

Newton_to_Celsius(n) == DDiv(n, NEWTON_RATIO)

Celsius_to_Romer(c) == DAdd(DMul(c, ROMER_RATIO), ROMER_OFFSET)

Romer_to_Celsius(ro) == DDiv(DSub(ro, ROMER_OFFSET), ROMER_RATIO)

(***************************************************************************)
(* Scale registry.  A scale identifier is a C string, modelled as the      *)
(* sequence of its characters; strcmp(a, b) == 0 is equality.              *)
(***************************************************************************)
Temperature ==
  {"CELSIUS", "FAHRENHEIT", "KELVIN", "RANKINE", "REAUMUR", "DELISLE",
   "NEWTON", "ROMER", "UNKNOWN"}

\* mutant: the last entry of the array forgotten
valid_scales_short ==
  << <<"C">>, <<"c">>, <<"F">>, <<"f">>, <<"K">>, <<"k">>, <<"R">>, <<"r">>,
     <<"R", "e">>, <<"r", "e">>, <<"R", "E">>,
     <<"D", "e">>, <<"d", "e">>, <<"D", "E">>,
     <<"N">>, <<"n">>,
     <<"R", "o">>, <<"r", "o">> >>

valid_scales ==
  << <<"C">>, <<"c">>, <<"F">>, <<"f">>, <<"K">>, <<"k">>, <<"R">>, <<"r">>,
     <<"R", "e">>, <<"r", "e">>, <<"R", "E">>,
     <<"D", "e">>, <<"d", "e">>, <<"D", "E">>,
     <<"N">>, <<"n">>,
     <<"R", "o">>, <<"r", "o">>, <<"R", "O">> >>

Is_valid_scale(scale) ==
  \E i \in 1..Len(valid_scales) : scale = valid_scales[i]

\* mutant: the Reaumur test placed first and matching on the first letter
Get_type_prefix(scale_name) ==
  IF scale_name # <<>> /\ scale_name[1] \in {"R", "r"}
     /\ scale_name \notin { <<"R", "o">>, <<"r", "o">>, <<"R", "O">> }
  THEN "REAUMUR"
  ELSE IF scale_name = <<"C">> \/ scale_name = <<"c">> THEN "CELSIUS"
  ELSE IF scale_name = <<"F">> \/ scale_name = <<"f">> THEN "FAHRENHEIT"
  ELSE IF scale_name = <<"K">> \/ scale_name = <<"k">> THEN "KELVIN"
  ELSE IF scale_name = <<"D", "e">> \/ scale_name = <<"d", "e">>
          \/ scale_name = <<"D", "E">> THEN "DELISLE"
  ELSE IF scale_name = <<"N">> \/ scale_name = <<"n">> THEN "NEWTON"
  ELSE IF scale_name = <<"R", "o">> \/ scale_name = <<"r", "o">>
          \/ scale_name = <<"R", "O">> THEN "ROMER"
  ELSE "UNKNOWN"

Get_type(scale_name) ==
  IF scale_name = <<"C">> \/ scale_name = <<"c">> THEN "CELSIUS"
  ELSE IF scale_name = <<"F">> \/ scale_name = <<"f">> THEN "FAHRENHEIT"
  ELSE IF scale_name = <<"K">> \/ scale_name = <<"k">> THEN "KELVIN"
  ELSE IF scale_name = <<"R">> \/ scale_name = <<"r">> THEN "RANKINE"
  ELSE IF scale_name = <<"R", "e">> \/ scale_name = <<"r", "e">>
          \/ scale_name = <<"R", "E">> THEN "REAUMUR"
  ELSE IF scale_name = <<"D", "e">> \/ scale_name = <<"d", "e">>
          \/ scale_name = <<"D", "E">> THEN "DELISLE"
  ELSE IF scale_name = <<"N">> \/ scale_name = <<"n">> THEN "NEWTON"
  ELSE IF scale_name = <<"R", "o">> \/ scale_name = <<"r", "o">>
          \/ scale_name = <<"R", "O">> THEN "ROMER"
  ELSE "UNKNOWN"

(***************************************************************************)
(* Conversion engine.  A call either returns a double or ends the process  *)
(* (Usage() and exit(EXIT_FAILURE) both exit with status EXIT_FAILURE).    *)
(***************************************************************************)
EXIT_FAILURE == 1

Returned(v) == [kind |-> "return", err |-> "none", value |-> v]

Exited(err) == [kind |-> "exit", err |-> err, value |-> DZero(FALSE)]

\* mutant: the guard forgets Rankine
Negative_absolute_kelvin(source_type, value) ==
  source_type = "KELVIN" /\ DLt(value, DFromInt(0))

\* the guard on the absolute scales
Negative_absolute(source_type, value) ==
  (source_type = "KELVIN" \/ source_type = "RANKINE")
  /\ DLt(value, DFromInt(0))

\* mutant: the Delisle and Newton cases of the first switch exchanged
Source_to_celsius_swapped(source_type, value) ==
  CASE source_type = "CELSIUS" -> value
    [] source_type = "FAHRENHEIT" -> Fahrenheit_to_Celsius(value)
    [] source_type = "KELVIN" -> Kelvin_to_Celsius(value)
    [] source_type = "RANKINE" -> Rankine_to_Celsius(value)
    [] source_type = "REAUMUR" -> Reaumur_to_Celsius(value)
    [] source_type = "DELISLE" -> Newton_to_Celsius(value)
    [] source_type = "NEWTON" -> Delisle_to_Celsius(value)
    [] source_type = "ROMER" -> Romer_to_Celsius(value)
    [] OTHER -> DFromInt(0)

\* first switch: the source value in Celsius
Source_to_celsius(source_type, value) ==
  CASE source_type = "CELSIUS" -> value
    [] source_type = "FAHRENHEIT" -> Fahrenheit_to_Celsius(value)
    [] source_type = "KELVIN" -> Kelvin_to_Celsius(value)
    [] source_type = "RANKINE" -> Rankine_to_Celsius(value)
    [] source_type = "REAUMUR" -> Reaumur_to_Celsius(value)
    [] source_type = "DELISLE" -> Delisle_to_Celsius(value)
    [] source_type = "NEWTON" -> Newton_to_Celsius(value)
    [] source_type = "ROMER" -> Romer_to_Celsius(value)
    [] OTHER -> DFromInt(0)

\* second switch: Celsius in the target scale
Celsius_to_target(target_type, celsius) ==
  CASE target_type = "CELSIUS" -> Returned(celsius)
    [] target_type = "FAHRENHEIT" -> Returned(Celsius_to_Fahrenheit(celsius))
    [] target_type = "KELVIN" -> Returned(Celsius_to_Kelvin(celsius))
    [] target_type = "RANKINE" -> Returned(Celsius_to_Rankine(celsius))
    [] target_type = "REAUMUR" -> Returned(Celsius_to_Reaumur(celsius))
    [] target_type = "DELISLE" -> Returned(Celsius_to_Delisle(celsius))
    [] target_type = "NEWTON" -> Returned(Celsius_to_Newton(celsius))
    [] target_type = "ROMER" -> Returned(Celsius_to_Romer(celsius))
    [] OTHER -> Exited("unknown_target")

\* gradus_enhanced.c
Convert_temperature(value, source, target) ==
  LET source_type == Get_type(source)
      target_type == Get_type(target)
  IN  IF source_type = "UNKNOWN" THEN Exited("unknown_source")
      ELSE IF target_type = "UNKNOWN" THEN Exited("unknown_target")
      ELSE IF Negative_absolute(source_type, value)
      THEN Exited("negative_absolute")
      ELSE Celsius_to_target(target_type, Source_to_celsius(source_type, value))

\* gradus_fixed.c: the target is only examined by the second switch
Convert_temperature_fixed(value, source, target) ==
  LET source_type == Get_type(source)
      target_type == Get_type(target)
  IN  IF source_type = "UNKNOWN" THEN Exited("unknown_source")
      ELSE IF Negative_absolute(source_type, value)
      THEN Exited("negative_absolute")
      ELSE Celsius_to_target(target_type, Source_to_celsius(source_type, value))

Convert(variant, value, source, target) ==
  IF variant = "enhanced" THEN Convert_temperature(value, source, target)
  ELSE Convert_temperature_fixed(value, source, target)

(***************************************************************************)
(* C strings are sequences of characters; the character past the end is    *)
(* NUL.                                                                    *)
(***************************************************************************)
NUL == ""

CharAt(s, i) == IF i >= 1 /\ i <= Len(s) THEN s[i] ELSE NUL

\* the rest of s from index i
StrFrom(s, i) == IF i > Len(s) THEN <<>> ELSE SubSeq(s, i, Len(s))

UpperCase ==
  <<"A", "B", "C", "D", "E", "F", "G", "H", "I", "J", "K", "L", "M", "N", "O",
    "P", "Q", "R", "S", "T", "U", "V", "W", "X", "Y", "Z">>

LowerCase ==
  <<"a", "b", "c", "d", "e", "f", "g", "h", "i", "j", "k", "l", "m", "n", "o",
    "p", "q", "r", "s", "t", "u", "v", "w", "x", "y", "z">>

\* tolower
Lower(c) ==
  IF \E k \in 1..Len(UpperCase) : UpperCase[k] = c
  THEN LowerCase[CHOOSE k \in 1..Len(UpperCase) : UpperCase[k] = c]
  ELSE c

\* the digits of the bases up to sixteen
Digits ==
  <<"0", "1", "2", "3", "4", "5", "6", "7", "8", "9",
    "a", "b", "c", "d", "e", "f">>

IsDigit(c, base) == \E d \in 1..base : Digits[d] = Lower(c)

DigitVal(c) == (CHOOSE d \in 1..Len(Digits) : Digits[d] = Lower(c)) - 1

\* isalnum or underscore
IsWordChar(c) ==
  \/ IsDigit(c, 10)
  \/ c = "_"
  \/ \E k \in 1..Len(LowerCase) : LowerCase[k] = Lower(c)

\* isspace
Space == {" ", "\t", "\n", "\r", "\f"}

\* TRUE iff s continues at i with the lower-case word w, in either case
RECURSIVE MatchesAt(_, _, _)
MatchesAt(s, i, w) ==
  w = <<>> \/ (Lower(CharAt(s, i)) = Head(w) /\ MatchesAt(s, i + 1, Tail(w)))

RECURSIVE SkipSpaces(_, _)
SkipSpaces(s, i) == IF CharAt(s, i) \in Space THEN SkipSpaces(s, i + 1) ELSE i

RECURSIVE SkipDigits(_, _, _)
SkipDigits(s, i, base) ==
  IF IsDigit(CharAt(s, i), base) THEN SkipDigits(s, i + 1, base) ELSE i

\* the natural n followed by the digits s[i], ..., s[j - 1], a point among
\* them passed over
RECURSIVE DigitsValue(_, _, _, _, _)
DigitsValue(s, i, j, base, n) ==
  IF i >= j THEN n
  ELSE IF s[i] = "." THEN DigitsValue(s, i + 1, j, base, n)
  ELSE IF n = <<>>
  THEN DigitsValue(s, i + 1, j, base, BNFromInt(DigitVal(s[i])))
  ELSE DigitsValue(s, i + 1, j, base,
                   BNAdd(BNMulSmall(n, base), BNFromInt(DigitVal(s[i]))))

\* decimal exponents beyond this are out of the range of double whatever
\* the digits in front of them
MaxDecimalExp == 330

\* the value of the exponent digits s[i], ..., s[j - 1], saturated
RECURSIVE ExpValue(_, _, _, _)
ExpValue(s, i, j, n) ==
  IF i >= j THEN n
  ELSE IF n >= 10 * MaxDecimalExp THEN ExpValue(s, i + 1, j, n)
  ELSE ExpValue(s, i + 1, j, 10 * n + DigitVal(s[i]))

BNSquare(a) == BNMul(a, a)

RECURSIVE Pow10(_)
Pow10(k) ==
  IF k = 0 THEN <<1>>
  ELSE IF k % 2 = 1 THEN BNMulSmall(Pow10(k - 1), 10)
  ELSE BNSquare(Pow10(k \div 2))

(***************************************************************************)
(* strtod.  The result is the value, the index of the first character not  *)
(* converted (1 when nothing was converted: e == s) and errno.             *)
(***************************************************************************)
DRatioRound(neg, qr, s) == RoundDouble(neg, qr[1], -s, qr[2] # <<>>)

DRatioShifted(neg, n, d, s) == DRatioRound(neg, BNDivMod(BNShl(n, s), d), s)

\* the double nearest to n / d, for naturals n > 0 and d > 0
DRatio(neg, n, d) ==
  DRatioShifted(neg, n, d,
                IF BNBitLen(d) + MantBits + 3 > BNBitLen(n)
                THEN BNBitLen(d) + MantBits + 3 - BNBitLen(n) ELSE 0)

Strtod(kind, v, end, erange) ==
  [kind |-> kind, v |-> v, end |-> end, erange |-> erange]

\* a finite nonzero value: ERANGE above DBL_MAX and below DBL_MIN
StrtodRanged(v, end) ==
  IF v.e + MantBits > 1024 THEN Strtod("inf", DZero(v.neg), end, TRUE)
  ELSE IF v.e + MantBits < -1021 THEN Strtod("finite", DZero(v.neg), end, TRUE)
  ELSE Strtod("finite", v, end, FALSE)

\* n * 10^scale, n written with digs digits
StrtodDecimal(neg, n, digs, scale, end) ==
  IF n = <<>> THEN Strtod("finite", DZero(neg), end, FALSE)
  ELSE IF scale > MaxDecimalExp THEN Strtod("inf", DZero(neg), end, TRUE)
  ELSE IF scale + digs < -MaxDecimalExp
  THEN Strtod("finite", DZero(neg), end, TRUE)
  ELSE IF scale >= 0
  THEN StrtodRanged(RoundDouble(neg, BNMul(n, Pow10(scale)), 0, FALSE), end)
  ELSE StrtodRanged(DRatio(neg, n, Pow10(-scale)), end)

\* n * 2^scale
StrtodHex(neg, n, scale, end) ==
  IF n = <<>> THEN Strtod("finite", DZero(neg), end, FALSE)
  ELSE StrtodRanged(RoundDouble(neg, n, scale, FALSE), end)

StrtodScaled(neg, n, digs, base, scale, frac, end) ==
  IF base = 10 THEN StrtodDecimal(neg, n, digs, scale - frac, end)
  ELSE StrtodHex(neg, n, scale - 4 * frac, end)

\* the exponent part (e for decimal, p for hexadecimal) is converted only
\* when it has a digit: d0 is where its digits would start, d1 where they end
StrtodExponent(s, neg, n, digs, base, frac, mend, d0, d1) ==
  IF Lower(CharAt(s, mend)) = (IF base = 10 THEN "e" ELSE "p") /\ d1 > d0
  THEN StrtodScaled(neg, n, digs, base,
                    (IF CharAt(s, mend + 1) = "-" THEN -1 ELSE 1)
                      * ExpValue(s, d0, d1, 0),
                    frac, d1)
  ELSE StrtodScaled(neg, n, digs, base, 0, frac, mend)

ExpDigitsStart(s, mend) ==
  IF CharAt(s, mend + 1) \in {"+", "-"} THEN mend + 2 ELSE mend + 1

\* the mantissa is s[i1 .. mend - 1] with frac digits after the point
StrtodMantissa(s, neg, i1, base, mend, frac) ==
  StrtodExponent(s, neg, DigitsValue(s, i1, mend, base, <<>>), mend - i1, base,
                 frac, mend, ExpDigitsStart(s, mend),
                 SkipDigits(s, ExpDigitsStart(s, mend), 10))

\* a is the end of the digits before the point, b the end of those after it;
\* without a digit nothing is converted (none is the index to return then)
StrtodPoint(s, neg, i1, base, a, b, none) ==
  IF CharAt(s, a) = "." /\ (a > i1 \/ b > a + 1)
  THEN StrtodMantissa(s, neg, i1, base, b, b - a - 1)
  ELSE IF a > i1 THEN StrtodMantissa(s, neg, i1, base, a, 0)
  ELSE none

StrtodDigits(s, neg, i1, base, none) ==
  StrtodPoint(s, neg, i1, base, SkipDigits(s, i1, base),
              SkipDigits(s, SkipDigits(s, i1, base) + 1, base), none)

\* the end of nan or nan(...)
RECURSIVE NanEnd(_, _, _)
NanEnd(s, i, j) ==
  IF IsWordChar(CharAt(s, j)) THEN NanEnd(s, i, j + 1)
  ELSE IF CharAt(s, j) = ")" THEN j + 1
  ELSE i

\* i1 is the index after the white space and the sign
StrtodAt(s, neg, i1) ==
  IF MatchesAt(s, i1, <<"i", "n", "f", "i", "n", "i", "t", "y">>)
  THEN Strtod("inf", DZero(neg), i1 + 8, FALSE)
  ELSE IF MatchesAt(s, i1, <<"i", "n", "f">>)
  THEN Strtod("inf", DZero(neg), i1 + 3, FALSE)
  ELSE IF MatchesAt(s, i1, <<"n", "a", "n">>)
  THEN Strtod("nan", DZero(neg),
              IF CharAt(s, i1 + 3) = "(" THEN NanEnd(s, i1 + 3, i1 + 4)
              ELSE i1 + 3, FALSE)
  ELSE IF CharAt(s, i1) = "0" /\ Lower(CharAt(s, i1 + 1)) = "x"
  THEN StrtodDigits(s, neg, i1 + 2, 16,
                    Strtod("finite", DZero(neg), i1 + 1, FALSE))
  ELSE StrtodDigits(s, neg, i1, 10, Strtod("none", DZero(FALSE), 1, FALSE))

StrtodSign(s, i0) ==
  StrtodAt(s, CharAt(s, i0) = "-",
           IF CharAt(s, i0) \in {"+", "-"} THEN i0 + 1 ELSE i0)

strtod(s) == StrtodSign(s, SkipSpaces(s, 1))

\* Parse: the checks on what strtod returned, in the order of the code
ParseChecks(s, c) ==
  IF c.erange THEN Exited("out_of_range")
  ELSE IF c.end = 1 \/ CharAt(s, c.end) # NUL THEN Exited("invalid_number")
  ELSE IF c.kind \in {"inf", "nan"} THEN Exited("special_number")
  ELSE Returned(c.v)

Parse(s) == ParseChecks(s, strtod(s))

(***************************************************************************)
(* The display of a result: the replacement of small results by 0.0 and    *)
(* printf("%.2f")                                                          *)
(***************************************************************************)
\* if (fabs(r) < 0.005 && r != 0.0) r = 0.0;
Suppress(r) ==
  IF DLt(DAbs(r), DLit(5, 1000)) /\ ~DEq(r, DFromInt(0)) THEN DFromInt(0)
  ELSE r

\* a % k for 0 < k < Base
RECURSIVE BNModSmallFrom(_, _, _, _)
BNModSmallFrom(a, k, i, r) ==
  IF i = 0 THEN r ELSE BNModSmallFrom(a, k, i - 1, (r * Base + a[i]) % k)

BNModSmall(a, k) == BNModSmallFrom(a, k, Len(a), 0)

\* the decimal digits of n, none for zero
RECURSIVE BNDecimal(_)
BNDecimal(n) ==
  IF n = <<>> THEN <<>>
  ELSE BNDecimal(BNDivSmall(n, 10)) \o <<Digits[BNModSmall(n, 10) + 1]>>

\* |r| * 100 rounded to an integer, ties to even
Hundredths(r) ==
  IF DIsZero(r) THEN <<>>
  ELSE IF r.e >= 0 THEN BNShl(BNMulSmall(r.m, 100), r.e)
  ELSE RoundNearestEven(BNShr(BNMulSmall(r.m, 100), -r.e),
                        BNBit(BNMulSmall(r.m, 100), -r.e - 1) = 1,
                        BNLowBitsSet(BNMulSmall(r.m, 100), -r.e - 1))

\* at least three digits, the point before the last two
RECURSIVE PointTwo(_)
PointTwo(ds) ==
  IF Len(ds) < 3 THEN PointTwo(<<"0">> \o ds)
  ELSE SubSeq(ds, 1, Len(ds) - 2) \o <<".">> \o SubSeq(ds, Len(ds) - 1, Len(ds))

\* printf("%.2f", r): the sign is printed whenever the sign bit is set
FormatF2(r) ==
  (IF r.neg THEN <<"-">> ELSE <<>>) \o PointTwo(BNDecimal(Hundredths(r)))

(***************************************************************************)
(* getopt_long of the GNU C library and getopt of POSIX (both files define  *)
(* _POSIX_C_SOURCE; gradus_fixed.c includes unistd.h only).  getopt_long   *)
(* permutes: the words that are not options are passed over and end up, in *)
(* their order, behind the options, where optind points when the call      *)
(* returns -1.  getopt ends at the first word that is not an option.  C    *)
(* index k of argv is index k + 1 of the sequence.                         *)
(***************************************************************************)
\* "s:t:TGa:h" and "s:t:T": the option characters, TRUE with a colon behind
optstring ==
  [enhanced |-> [s |-> TRUE, t |-> TRUE, T |-> FALSE, G |-> FALSE,
                 a |-> TRUE, h |-> FALSE],
   fixed    |-> [s |-> TRUE, t |-> TRUE, T |-> FALSE]]

long_options ==
  << [name |-> <<"s", "o", "u", "r", "c", "e">>, has_arg |-> TRUE, val |-> "s"],
     [name |-> <<"t", "a", "r", "g", "e", "t">>, has_arg |-> TRUE, val |-> "t"],
     [name |-> <<"t", "a", "b", "l", "e">>, has_arg |-> FALSE, val |-> "T"],
     [name |-> <<"g", "r", "a", "p", "h">>, has_arg |-> FALSE, val |-> "G"],
     [name |-> <<"a", "r", "r", "a", "y">>, has_arg |-> FALSE, val |-> "a"],
     [name |-> <<"i", "n", "-", "s", "e", "p">>, has_arg |-> TRUE, val |-> "i"],
     [name |-> <<"o", "u", "t", "-", "s", "e", "p">>, has_arg |-> TRUE,
      val |-> "o"],
     [name |-> <<"h", "e", "l", "p">>, has_arg |-> FALSE, val |-> "h"] >>

\* what one call returns: the option character, "?" or EOF for -1, optarg
\* (<<>> for none, <<word>> otherwise), the new optind and position in the
\* word, and the words the call passed over
EOF == "EOF"

Getopt(opt, optarg, ind, nextchar, passed) ==
  [opt |-> opt, optarg |-> optarg, optind |-> ind, nextchar |-> nextchar,
   passed |-> passed]

IsOptionWord(w) == Len(w) >= 2 /\ w[1] = "-"

\* the first C index from k on of a word that is an option, argc if none
RECURSIVE NextOptionIndex(_, _)
NextOptionIndex(argv, k) ==
  IF k >= Len(argv) THEN Len(argv)
  ELSE IF IsOptionWord(argv[k + 1]) THEN k
  ELSE NextOptionIndex(argv, k + 1)

\* the words of C indices from .. to - 1
Words(argv, from, to) ==
  IF from >= to THEN <<>> ELSE SubSeq(argv, from + 1, to)

\* option character number n of the word at C index j
ShortOption(opts, argv, j, n, passed) ==
  IF argv[j + 1][n] \notin DOMAIN opts
  THEN IF n = Len(argv[j + 1]) THEN Getopt("?", <<>>, j + 1, 0, passed)
       ELSE Getopt("?", <<>>, j, n + 1, passed)
  ELSE IF ~opts[argv[j + 1][n]]
  THEN IF n = Len(argv[j + 1])
       THEN Getopt(argv[j + 1][n], <<>>, j + 1, 0, passed)
       ELSE Getopt(argv[j + 1][n], <<>>, j, n + 1, passed)
  ELSE IF n < Len(argv[j + 1])
  THEN Getopt(argv[j + 1][n], <<StrFrom(argv[j + 1], n + 1)>>, j + 1, 0, passed)
  ELSE IF j + 1 < Len(argv)
  THEN Getopt(argv[j + 1][n], <<argv[j + 2]>>, j + 2, 0, passed)
  ELSE Getopt("?", <<>>, j + 1, 0, passed)

\* the index of the first "=" of w from i on, 0 if none
RECURSIVE EqualsIndex(_, _)
EqualsIndex(w, i) ==
  IF i > Len(w) THEN 0 ELSE IF w[i] = "=" THEN i ELSE EqualsIndex(w, i + 1)

IsPrefix(p, w) == Len(p) <= Len(w) /\ SubSeq(w, 1, Len(p)) = p

\* the entries of long_options a name stands for: the one it equals, else
\* those it abbreviates
LongMatches(name) ==
  IF \E k \in 1..Len(long_options) : long_options[k].name = name
  THEN {k \in 1..Len(long_options) : long_options[k].name = name}
  ELSE {k \in 1..Len(long_options) : IsPrefix(name, long_options[k].name)}

\* an abbreviation is ambiguous unless all its entries are alike
LongUnique(ms) ==
  /\ ms # {}
  /\ \A k1, k2 \in ms :
       /\ long_options[k1].has_arg = long_options[k2].has_arg
       /\ long_options[k1].val = long_options[k2].val

\* the word at C index j is --name or --name=value, eq the index of its "="
LongFound(argv, j, o, eq, passed) ==
  IF eq > 0
  THEN IF o.has_arg
       THEN Getopt(o.val, <<StrFrom(argv[j + 1], eq + 1)>>, j + 1, 0, passed)
       ELSE Getopt("?", <<>>, j + 1, 0, passed)
  ELSE IF ~o.has_arg THEN Getopt(o.val, <<>>, j + 1, 0, passed)
  ELSE IF j + 1 < Len(argv)
  THEN Getopt(o.val, <<argv[j + 2]>>, j + 2, 0, passed)
  ELSE Getopt("?", <<>>, j + 1, 0, passed)

LongMatched(argv, j, ms, eq, passed) ==
  IF LongUnique(ms)
  THEN LongFound(argv, j, long_options[CHOOSE k \in ms : \A k2 \in ms : k <= k2],
                 eq, passed)
  ELSE Getopt("?", <<>>, j + 1, 0, passed)

LongNamed(argv, j, eq, passed) ==
  LongMatched(argv, j,
              LongMatches(SubSeq(argv[j + 1], 3,
                                 IF eq > 0 THEN eq - 1 ELSE Len(argv[j + 1]))),
              eq, passed)

LongOption(argv, j, passed) ==
  LongNamed(argv, j, EqualsIndex(argv[j + 1], 3), passed)

\* a call that starts a new word: j is the C index of the word the scan
\* stops at, behind the words it passed over
GetoptWord(variant, argv, j, passed) ==
  IF j >= Len(argv) THEN Getopt(EOF, <<>>, j, 0, passed)
  ELSE IF argv[j + 1] = <<"-", "-">>
  THEN Getopt(EOF, <<>>, j + 1, 0, passed \o Words(argv, j + 1, Len(argv)))
  ELSE IF ~IsOptionWord(argv[j + 1])
  THEN Getopt(EOF, <<>>, j, 0, passed \o Words(argv, j, Len(argv)))
  ELSE IF variant = "enhanced" /\ argv[j + 1][2] = "-"
  THEN LongOption(argv, j, passed)
  ELSE ShortOption(optstring[variant], argv, j, 2, passed)

GetoptFrom(variant, argv, ind, j) ==
  GetoptWord(variant, argv, j, Words(argv, ind, j))

\* getopt_long(argc, argv, "s:t:TGa:h", long_options, &option_index) in
\* gradus_enhanced.c, getopt(argc, argv, "s:t:T") in gradus_fixed.c
getopt(variant, argv, ind, nextchar) ==
  IF nextchar > 0
  THEN ShortOption(optstring[variant], argv, ind, nextchar, <<>>)
  ELSE GetoptFrom(variant, argv, ind,
                  IF variant = "enhanced" THEN NextOptionIndex(argv, ind)
                  ELSE ind)

(***************************************************************************)
(* strtok and getline                                                      *)
(***************************************************************************)
\* the first index from i on of a character in (inside) or not in cs
RECURSIVE Span(_, _, _, _)
Span(s, i, cs, inside) ==
  IF i > Len(s) THEN i
  ELSE IF (s[i] \in cs) = inside THEN i
  ELSE Span(s, i + 1, cs, inside)

\* the tokens strtok hands out for s, one call after the other
RECURSIVE Tokens(_, _, _)
TokensAt(s, b, e, cs) ==
  IF b > Len(s) THEN <<>> ELSE <<SubSeq(s, b, e - 1)>> \o Tokens(s, e, cs)

TokensFrom(s, b, cs) == TokensAt(s, b, Span(s, b, cs, TRUE), cs)

Tokens(s, i, cs) == TokensFrom(s, Span(s, i, cs, FALSE), cs)

\* the set of the characters of a string
Chars(s) == {s[k] : k \in 1..Len(s)}

\* getline from offset pos of the stream: the characters up to and with the
\* next newline, <<>> at the end of the stream (getline returns -1)
GetLine(stream, pos) ==
  IF pos > Len(stream) THEN <<>>
  ELSE SubSeq(stream, pos,
              IF Span(stream, pos, {"\n"}, TRUE) > Len(stream) THEN Len(stream)
              ELSE Span(stream, pos, {"\n"}, TRUE))

(***************************************************************************)
(* State                                                                   *)
(***************************************************************************)
VARIABLES
  variant,          \* which source file runs: "enhanced" or "fixed"
  value,            \* Convert_temperature: the double handed in
  source,           \* Convert_temperature: the source identifier
  target,           \* Convert_temperature: the target identifier
  cpc,              \* position of the caller of Convert_temperature
  outcome,          \* what the call did
  back,             \* what the call in the opposite direction did
  ident,            \* registry: the identifier looked up
  spc,              \* position of the caller of the registry
  scale_type,       \* what Get_type returned
  scale_valid,      \* what Is_valid_scale returned
  argv,             \* main: the command line, argv[0] first
  stdin,            \* the characters of standard input
  pos,              \* how far standard input has been read
  optind,           \* getopt: C index of the next word of argv
  nextchar,         \* getopt: position in a word of several options, else 0
  operands,         \* the words getopt passed over: argv from optind on
  source_scale,     \* main: <<>> for NULL, else <<identifier>>
  target_scale,     \* main: <<>> for NULL, else <<identifier>>
  input_separator,  \* global: <<>> for NULL, else <<string>>
  output_separator, \* global: <<>> for NULL, else <<string>>
  array_mode,       \* global
  table_output,     \* global
  graph_output,     \* global
  pc,               \* position of main
  i,                \* main: index of the current operand
  first,            \* main: no result printed yet
  array_first,      \* Process_array: first
  tokens,           \* Process_array: the tokens strtok has yet to return
  place,            \* where the current token comes from: arg, array, line
  token,            \* the string being converted
  v,                \* what Parse returned
  r,                \* what Convert_temperature returned
  stdout,           \* the writes to standard output, in order
  stderr,           \* the messages written to standard error, in order
  exit_status,      \* -1 while the process runs
  calls             \* the calls of Is_valid_scale, Parse, Convert_temperature

convVars == <<value, source, target, cpc, outcome, back>>

scaleVars == <<ident, spc, scale_type, scale_valid>>

inputVars == <<argv, stdin>>

getoptVars == <<optind, nextchar, operands>>

optionVars ==
  <<source_scale, target_scale, input_separator, output_separator,
    array_mode, table_output, graph_output>>

loopVars == <<pos, i, first, array_first, tokens>>

tokenVars == <<place, token, v, r>>

outVars == <<stdout, stderr>>

mainVars ==
  <<inputVars, getoptVars, optionVars, loopVars, tokenVars, outVars, pc,
    exit_status, calls>>

vars == <<variant, convVars, scaleVars, mainVars>>

NoOutcome == [kind |-> "none", err |-> "none", value |-> DZero(FALSE)]

ConvIdle ==
  /\ value = DZero(FALSE)
  /\ source = <<>>
  /\ target = <<>>
  /\ cpc = "idle"
  /\ outcome = NoOutcome
  /\ back = NoOutcome

ScaleIdle ==
  /\ ident = <<>>
  /\ spc = "idle"
  /\ scale_type = "UNKNOWN"
  /\ scale_valid = FALSE

\* main before its first statement, the globals as initialised
MainStart ==
  /\ pos = 1
  /\ optind = 1
  /\ nextchar = 0
  /\ operands = <<>>
  /\ source_scale = <<>>
  /\ target_scale = <<>>
  /\ input_separator = <<>>
  /\ output_separator = <<>>
  /\ array_mode = FALSE
  /\ table_output = FALSE
  /\ graph_output = FALSE
  /\ i = 1
  /\ first = TRUE
  /\ array_first = TRUE
  /\ tokens = <<>>
  /\ place = "none"
  /\ token = <<>>
  /\ v = DZero(FALSE)
  /\ r = DZero(FALSE)
  /\ stdout = <<>>
  /\ stderr = <<>>
  /\ exit_status = -1
  /\ calls = <<>>

MainIdle ==
  /\ argv = <<>>
  /\ stdin = <<>>
  /\ pc = "idle"
  /\ MainStart

(***************************************************************************)
(* The registry on its own: every string of at most MaxIdLen characters    *)
(* over IdChars is looked up with Get_type and with Is_valid_scale.        *)
(***************************************************************************)
MaxIdLen == 2

IdChars ==
  {"C", "c", "F", "f", "K", "k", "R", "r", "E", "e", "D", "d", "N", "n",
   "O", "o", "X"}

AllIds == UNION {[1..n -> IdChars] : n \in 0..MaxIdLen}

InitScale ==
  /\ variant = "enhanced"
  /\ ConvIdle
  /\ MainIdle
  /\ ident \in AllIds
  /\ spc = "start"
  /\ scale_type = "UNKNOWN"
  /\ scale_valid = FALSE

CallGetType ==
  /\ spc = "start"
  /\ scale_type' = Get_type(ident)
  /\ spc' = "resolved"
  /\ UNCHANGED <<ident, scale_valid, variant, convVars, mainVars>>

CallIsValidScale ==
  /\ spc = "resolved"
  /\ scale_valid' = Is_valid_scale(ident)
  /\ spc' = "validated"
  /\ UNCHANGED <<ident, scale_type, variant, convVars, mainVars>>

NextScale == CallGetType \/ CallIsValidScale

SpecScale == InitScale /\ [][NextScale]_vars

(***************************************************************************)
(* The engine on its own: Convert_temperature is called once with a value  *)
(* and two identifiers and, when it returns, once more in the opposite     *)
(* direction with the value it returned.                                   *)
(***************************************************************************)
MaxTenth == 3

\* hundredths of the landmark temperatures
Landmarks == {-30000, -27315, -4000, -100, 3200, 10000, 49167}

ConvValues ==
  {DLit(n, 10) : n \in (-MaxTenth)..MaxTenth}
  \cup {DLit(n, 100) : n \in Landmarks}
  \cup {DZero(TRUE)}

ConvIds ==
  { <<"C">>, <<"F">>, <<"K">>, <<"R">>, <<"R", "e">>, <<"D", "e">>, <<"N">>,
    <<"R", "o">>, <<"k">>, <<"r">>, <<"X">>, <<"r", "E">> }

InitConv ==
  /\ ScaleIdle
  /\ MainIdle
  /\ variant \in {"enhanced", "fixed"}
  /\ value \in ConvValues
  /\ source \in ConvIds
  /\ target \in ConvIds
  /\ cpc = "call"
  /\ outcome = NoOutcome
  /\ back = NoOutcome

CallConvert ==
  /\ cpc = "call"
  /\ outcome' = Convert(variant, value, source, target)
  /\ cpc' = IF outcome'.kind = "return" THEN "returned" ELSE "exited"
  /\ UNCHANGED <<variant, value, source, target, back, scaleVars, mainVars>>

CallConvertBack ==
  /\ cpc = "returned"
  /\ back' = Convert(variant, outcome.value, target, source)
  /\ cpc' = "back"
  /\ UNCHANGED <<variant, value, source, target, outcome, scaleVars, mainVars>>

NextConv == CallConvert \/ CallConvertBack

SpecConv == InitConv /\ [][NextConv]_vars

(***************************************************************************)
(* The driver: main of either file with Process_array.  One step is one    *)
(* call of getopt with the switch on its result, the checks after the      *)
(* options, the head of a loop, or one of Parse, Convert_temperature and   *)
(* printf for the current token.                                           *)
(***************************************************************************)
MaxArgs == 2

MaxLines == 2

PROGRAM == <<"g", "r", "a", "d", "u", "s">>

\* the options of a command line
OptionLines ==
  { <<>>,
    << <<"-", "s">>, <<"C">>, <<"-", "t">>, <<"F">> >>,
    << <<"-", "s">>, <<"C">>, <<"-", "t">>, <<"F">>, <<"-", "-">> >>,
    << <<"-", "s">>, <<"C">>, <<"-", "t">>, <<"N">>, <<"-", "-">> >>,
    << <<"-", "s">>, <<"K">>, <<"-", "t">>, <<"C">> >>,
    << <<"-", "s", "R">>, <<"-", "t", "K">> >>,
    << <<"-", "-", "s", "o", "u", "r", "c", "e">>, <<"C">>,
       <<"-", "-", "t", "a", "r", "g", "e", "t", "=", "F">>,
       <<"-", "-", "a", "r", "r", "a", "y">> >>,
    << <<"-", "s">>, <<"C">>, <<"-", "t">>, <<"F">>, <<"-", "a">> >>,
    << <<"-", "a">>, <<"-", "s">>, <<"C">>, <<"-", "t">>, <<"F">> >>,
    << <<"-", "s">>, <<"C">>, <<"-", "t">>, <<"F">>,
       <<"-", "-", "a", "r", "r">>,
       <<"-", "-", "i", "n", "-", "s", "e", "p">>, <<",">>,
       <<"-", "-", "o", "u", "t", "-", "s", "e", "p">>, <<";">> >>,
    << <<"-", "s">>, <<"C">>, <<"-", "t">>, <<"F">>,
       <<"-", "-", "o", "u", "t", "-", "s", "e", "p">>, <<",", " ">> >>,
    << <<"-", "s">>, <<"X">>, <<"-", "t">>, <<"F">> >>,
    << <<"-", "s">>, <<"C">>, <<"-", "t">>, <<"r", "E">> >>,
    << <<"-", "s">>, <<"C">> >>,
    << <<"-", "T">> >>,
    << <<"-", "s">>, <<"C">>, <<"-", "t">>, <<"F">>,
       <<"-", "-", "g", "r", "a", "p", "h">> >>,
    << <<"-", "h", "T">> >>,
    << <<"-", "-", "t">>, <<"F">> >> }

\* the words after the options: temperatures, and lists of them
OperandWords ==
  { <<"0">>, <<"1", "0", "0">>, <<"-", "4", "0">>,
    <<"-", "0", ".", "0", "0", "1">>, <<"-", "0">>, <<"x">>,
    <<"i", "n", "f">>,
    <<"0", " ", "1", "0", "0", " ", "-", "4", "0">>,
    <<"0", ",", "x", ",", "5">> }

\* the lines of standard input, without their newline
LineTexts ==
  { <<>>, <<"5">>, <<"-", "4", "0">>, <<"x">>, <<"0", " ", "1", "0", "0">>,
    <<"-", "0">>, <<"-", "0", ".", "0", "0", "1">>,
    <<"1", "e", "9", "9", "9">>, <<"n", "a", "n">> }

SeqsUpTo(S, n) == UNION {[1..k -> S] : k \in 0..n}

\* the lines one after the other, each with its newline, the last one with
\* it or without
RECURSIVE Stream(_, _)
Stream(ls, nl) ==
  IF ls = <<>> THEN <<>>
  ELSE IF Len(ls) = 1 THEN Head(ls) \o (IF nl THEN <<"\n">> ELSE <<>>)
  ELSE Head(ls) \o <<"\n">> \o Stream(Tail(ls), nl)

Streams == {Stream(ls, nl) : ls \in SeqsUpTo(LineTexts, MaxLines), nl \in BOOLEAN}

InitMain ==
  /\ ConvIdle
  /\ ScaleIdle
  /\ variant \in {"enhanced", "fixed"}
  /\ \E o \in OptionLines, ws \in SeqsUpTo(OperandWords, MaxArgs) :
       /\ argv = <<PROGRAM>> \o o \o ws
       /\ stdin \in (IF ws = <<>> THEN Streams ELSE {<<>>})
  /\ pc = "getopt"
  /\ MainStart

\* exit(status), or return status from main
Exit(status) ==
  /\ pc' = "exit"
  /\ exit_status' = status

\* Usage() after the messages ms
UsageAfter(ms) ==
  /\ stderr' = stderr \o ms \o <<"usage">>
  /\ Exit(EXIT_FAILURE)

\* the switch on an option character g.opt
GetoptSwitch(g) ==
  /\ optind' = g.optind
  /\ nextchar' = g.nextchar
  /\ operands' = operands \o g.passed
  /\ source_scale' = IF g.opt = "s" THEN g.optarg ELSE source_scale
  /\ target_scale' = IF g.opt = "t" THEN g.optarg ELSE target_scale
  /\ input_separator' = IF g.opt = "i" THEN g.optarg ELSE input_separator
  /\ output_separator' = IF g.opt = "o" THEN g.optarg ELSE output_separator
  /\ array_mode' = (array_mode \/ g.opt = "a")
  /\ graph_output' = (graph_output \/ g.opt = "G")
  /\ table_output' = (table_output \/ (g.opt = "T" /\ variant = "enhanced"))
  /\ IF g.opt = "?"
     THEN UsageAfter(<<"getopt">>) /\ UNCHANGED stdout
     ELSE IF g.opt = "h"
     THEN UsageAfter(<<>>) /\ UNCHANGED stdout
     ELSE IF g.opt = "T" /\ variant = "fixed"
     THEN /\ stdout' = Append(stdout, [fmt |-> "table", text |-> <<>>])
          /\ Exit(0)
          /\ UNCHANGED stderr
     ELSE UNCHANGED <<pc, exit_status, outVars>>
  /\ UNCHANGED <<variant, convVars, scaleVars, inputVars, loopVars, tokenVars,
                 calls>>

\* one turn of the while loop over the options
GetoptOption ==
  /\ pc = "getopt"
  /\ getopt(variant, argv, optind, nextchar).opt # EOF
  /\ GetoptSwitch(getopt(variant, argv, optind, nextchar))

GetoptEnd(g) ==
  /\ optind' = g.optind
  /\ nextchar' = g.nextchar
  /\ operands' = operands \o g.passed
  /\ pc' = "checks"
  /\ UNCHANGED <<variant, convVars, scaleVars, inputVars, optionVars, loopVars,
                 tokenVars, outVars, exit_status, calls>>

\* getopt returns -1
GetoptDone ==
  /\ pc = "getopt"
  /\ getopt(variant, argv, optind, nextchar).opt = EOF
  /\ GetoptEnd(getopt(variant, argv, optind, nextchar))

\* if (table_output) ... if (graph_output) ...
PrintTables ==
  /\ pc = "checks"
  /\ table_output \/ graph_output
  /\ stdout' = Append(stdout, [fmt |-> IF table_output THEN "table" ELSE "graph",
                               text |-> <<>>])
  /\ Exit(0)
  /\ UNCHANGED <<variant, convVars, scaleVars, inputVars, getoptVars,
                 optionVars, loopVars, tokenVars, stderr, calls>>

\* the checks on the scales without the one on the target
CheckScales_source_only ==
  /\ pc = "checks"
  /\ ~table_output /\ ~graph_output
  /\ IF source_scale = <<>> \/ target_scale = <<>>
     THEN UsageAfter(<<"scales_required">>) /\ UNCHANGED calls
     ELSE IF ~Is_valid_scale(source_scale[1])
     THEN /\ UsageAfter(<<"invalid_source">>)
          /\ calls' = Append(calls, <<"Is_valid_scale", source_scale[1]>>)
     ELSE /\ calls' = Append(calls, <<"Is_valid_scale", source_scale[1]>>)
          /\ pc' = IF operands # <<>> THEN "args" ELSE "stdin"
          /\ UNCHANGED <<exit_status, stderr>>
  /\ UNCHANGED <<variant, convVars, scaleVars, inputVars, getoptVars,
                 optionVars, loopVars, tokenVars, stdout>>

\* the three checks on the scales
CheckScales ==
  /\ pc = "checks"
  /\ ~table_output /\ ~graph_output
  /\ IF source_scale = <<>> \/ target_scale = <<>>
     THEN UsageAfter(<<"scales_required">>) /\ UNCHANGED calls
     ELSE IF ~Is_valid_scale(source_scale[1])
     THEN /\ UsageAfter(<<"invalid_source">>)
          /\ calls' = Append(calls, <<"Is_valid_scale", source_scale[1]>>)
     ELSE IF ~Is_valid_scale(target_scale[1])
     THEN /\ UsageAfter(<<"invalid_target">>)
          /\ calls' = calls \o << <<"Is_valid_scale", source_scale[1]>>,
                                  <<"Is_valid_scale", target_scale[1]>> >>
     ELSE /\ calls' = calls \o << <<"Is_valid_scale", source_scale[1]>>,
                                  <<"Is_valid_scale", target_scale[1]>> >>
          /\ pc' = IF operands # <<>> THEN "args" ELSE "stdin"
          /\ UNCHANGED <<exit_status, stderr>>
  /\ UNCHANGED <<variant, convVars, scaleVars, inputVars, getoptVars,
                 optionVars, loopVars, tokenVars, stdout>>

\* Process_array: the delimiters handed to strtok
Delims ==
  IF input_separator # <<>> THEN Chars(input_separator[1])
  ELSE {" ", "\t", "\n"}

\* the head of Process_array(input, ...)
ProcessArray(input) ==
  /\ tokens' = Tokens(input, 1, Delims)
  /\ array_first' = TRUE
  /\ pc' = "array"
  /\ UNCHANGED tokenVars

\* Parse(s) is next
ToParse(s, from) ==
  /\ token' = s
  /\ place' = from
  /\ pc' = "parse"
  /\ UNCHANGED <<v, r, tokens, array_first>>

\* the body of the for loop over argv[optind], ..., argv[argc - 1]
ArgNext ==
  /\ pc = "args"
  /\ i <= Len(operands)
  /\ IF array_mode THEN ProcessArray(operands[i])
     ELSE ToParse(operands[i], "arg")
  /\ UNCHANGED <<variant, convVars, scaleVars, inputVars, getoptVars,
                 optionVars, pos, i, first, outVars, exit_status, calls>>

\* after the for loop: the closing newline of gradus_enhanced.c, return 0
ArgsEnd ==
  /\ pc = "args"
  /\ i > Len(operands)
  /\ stdout' = IF variant = "enhanced" /\ ~array_mode /\ ~first
               THEN Append(stdout, [fmt |-> "\n", text |-> <<"\n">>])
               ELSE stdout
  /\ Exit(0)
  /\ UNCHANGED <<variant, convVars, scaleVars, inputVars, getoptVars,
                 optionVars, loopVars, tokenVars, stderr, calls>>

\* Process_array handing the token to Convert_temperature without Parse
ArrayNext_unparsed ==
  /\ pc = "array"
  /\ tokens # <<>>
  /\ token' = Head(tokens)
  /\ tokens' = Tail(tokens)
  /\ place' = "array"
  /\ pc' = "convert"
  /\ UNCHANGED <<variant, convVars, scaleVars, inputVars, getoptVars,
                 optionVars, pos, i, first, array_first, v, r, outVars,
                 exit_status, calls>>

\* while ((token = strtok(...)) != NULL)
ArrayNext ==
  /\ pc = "array"
  /\ tokens # <<>>
  /\ token' = Head(tokens)
  /\ tokens' = Tail(tokens)
  /\ place' = "array"
  /\ pc' = "parse"
  /\ UNCHANGED <<variant, convVars, scaleVars, inputVars, getoptVars,
                 optionVars, pos, i, first, array_first, v, r, outVars,
                 exit_status, calls>>

\* the end of Process_array and the return to the loop that called it
ArrayEnd ==
  /\ pc = "array"
  /\ tokens = <<>>
  /\ stdout' = IF output_separator = <<>>
               THEN Append(stdout, [fmt |-> "\n", text |-> <<"\n">>])
               ELSE stdout
  /\ pc' = IF operands # <<>> THEN "args" ELSE "stdin"
  /\ i' = IF operands # <<>> THEN i + 1 ELSE i
  /\ UNCHANGED <<variant, convVars, scaleVars, inputVars, getoptVars,
                 optionVars, pos, first, array_first, tokens, tokenVars,
                 stderr, exit_status, calls>>

\* the body of the while loop over the lines: line is what getline read
StdinBody(line) ==
  /\ pos' = pos + Len(line)
  /\ IF Len(line) > 1
     THEN IF array_mode
          THEN ProcessArray(IF line[Len(line)] = "\n"
                            THEN SubSeq(line, 1, Len(line) - 1) ELSE line)
          ELSE ToParse(IF line[Len(line)] = "\n"
                       THEN SubSeq(line, 1, Len(line) - 1) ELSE line, "line")
     ELSE UNCHANGED <<pc, tokens, array_first, tokenVars>>
  /\ UNCHANGED <<variant, convVars, scaleVars, inputVars, getoptVars,
                 optionVars, i, first, outVars, exit_status, calls>>

StdinLine ==
  /\ pc = "stdin"
  /\ GetLine(stdin, pos) # <<>>
  /\ StdinBody(GetLine(stdin, pos))

\* getline returns -1: return 0
StdinEof ==
  /\ pc = "stdin"
  /\ GetLine(stdin, pos) = <<>>
  /\ Exit(0)
  /\ UNCHANGED <<variant, convVars, scaleVars, inputVars, getoptVars,
                 optionVars, loopVars, tokenVars, outVars, calls>>

\* Parse as a caller that skips a bad token of a list would have it: the
\* message is written and Process_array goes on with the next token
Parsed_skipping(p) ==
  /\ calls' = Append(calls, <<"Parse", token>>)
  /\ IF p.kind = "exit"
     THEN /\ stderr' = Append(stderr, p.err)
          /\ IF place = "array"
             THEN pc' = "array" /\ UNCHANGED exit_status
             ELSE Exit(EXIT_FAILURE)
          /\ UNCHANGED v
     ELSE /\ v' = p.value
          /\ pc' = "convert"
          /\ UNCHANGED <<stderr, exit_status>>
  /\ UNCHANGED <<variant, convVars, scaleVars, inputVars, getoptVars,
                 optionVars, loopVars, place, token, r, stdout>>

\* double v = Parse(token): p is what Parse did
Parsed(p) ==
  /\ calls' = Append(calls, <<"Parse", token>>)
  /\ IF p.kind = "exit"
     THEN /\ stderr' = Append(stderr, p.err)
          /\ Exit(EXIT_FAILURE)
          /\ UNCHANGED v
     ELSE /\ v' = p.value
          /\ pc' = "convert"
          /\ UNCHANGED <<stderr, exit_status>>
  /\ UNCHANGED <<variant, convVars, scaleVars, inputVars, getoptVars,
                 optionVars, loopVars, place, token, r, stdout>>

ParseToken ==
  /\ pc = "parse"
  /\ Parsed(Parse(token))

\* Convert_temperature with a memory (a static result): once a result has
\* been printed it hands the previous result back
Converted_cached(c) ==
  /\ calls' = Append(calls, <<"Convert_temperature", v, source_scale[1],
                              target_scale[1]>>)
  /\ IF c.kind = "exit"
     THEN /\ stderr' = Append(stderr, c.err)
          /\ Exit(EXIT_FAILURE)
          /\ UNCHANGED r
     ELSE /\ r' = IF first THEN c.value ELSE r
          /\ pc' = "print"
          /\ UNCHANGED <<stderr, exit_status>>
  /\ UNCHANGED <<variant, convVars, scaleVars, inputVars, getoptVars,
                 optionVars, loopVars, place, token, v, stdout>>

\* double r = Convert_temperature(v, source_scale, target_scale): c is what
\* the call did
Converted(c) ==
  /\ calls' = Append(calls, <<"Convert_temperature", v, source_scale[1],
                              target_scale[1]>>)
  /\ IF c.kind = "exit"
     THEN /\ stderr' = Append(stderr, c.err)
          /\ Exit(EXIT_FAILURE)
          /\ UNCHANGED r
     ELSE /\ r' = c.value
          /\ pc' = "print"
          /\ UNCHANGED <<stderr, exit_status>>
  /\ UNCHANGED <<variant, convVars, scaleVars, inputVars, getoptVars,
                 optionVars, loopVars, place, token, v, stdout>>

ConvertToken ==
  /\ pc = "convert"
  /\ Converted(Convert(variant, v, source_scale[1], target_scale[1]))

\* the writes of one result: shown is what %.2f makes of it, isFirst the
\* flag first of the loop
ResultWrites(shown, isFirst) ==
  IF variant = "fixed" \/ place = "line"
  THEN << [fmt |-> "%.2f\n", text |-> shown \o <<"\n">>] >>
  ELSE (IF ~isFirst /\ output_separator # <<>>
        THEN << [fmt |-> "%s", text |-> output_separator[1]] >> ELSE <<>>)
       \o << [fmt |-> "%.2f", text |-> shown] >>

\* the replacement of a small result and the printf calls, then the loop
\* the token came from
Printed(shown) ==
  /\ r' = Suppress(r)
  /\ stdout' = stdout \o ResultWrites(shown, IF place = "array" THEN array_first
                                             ELSE first)
  /\ first' = IF place = "arg" /\ variant = "enhanced" THEN FALSE ELSE first
  /\ array_first' = IF place = "array" THEN FALSE ELSE array_first
  /\ i' = IF place = "arg" THEN i + 1 ELSE i
  /\ pc' = CASE place = "arg" -> "args"
             [] place = "array" -> "array"
             [] place = "line" -> "stdin"
  /\ UNCHANGED <<variant, convVars, scaleVars, inputVars, getoptVars,
                 optionVars, pos, tokens, place, token, v, stderr,
                 exit_status, calls>>

PrintResult ==
  /\ pc = "print"
  /\ Printed(FormatF2(Suppress(r)))

NextMain ==
  \/ GetoptOption
  \/ GetoptDone
  \/ PrintTables
  \/ CheckScales
  \/ ArgNext
  \/ ArgsEnd
  \/ ArrayNext
  \/ ArrayEnd
  \/ StdinLine
  \/ StdinEof
  \/ ParseToken
  \/ ConvertToken
  \/ PrintResult

SpecMain == InitMain /\ [][NextMain]_vars

(***************************************************************************)
(* Properties                                                              *)
(***************************************************************************)

\* the whitelist of section 4.1: the identifiers of each scale
Whitelist ==
  [t \in Temperature \ {"UNKNOWN"} |->
     CASE t = "CELSIUS" -> { <<"C">>, <<"c">> }
       [] t = "FAHRENHEIT" -> { <<"F">>, <<"f">> }
       [] t = "KELVIN" -> { <<"K">>, <<"k">> }
       [] t = "RANKINE" -> { <<"R">>, <<"r">> }
       [] t = "REAUMUR" -> { <<"R", "e">>, <<"r", "e">>, <<"R", "E">> }
       [] t = "DELISLE" -> { <<"D", "e">>, <<"d", "e">>, <<"D", "E">> }
       [] t = "NEWTON" -> { <<"N">>, <<"n">> }
       [] t = "ROMER" -> { <<"R", "o">>, <<"r", "o">>, <<"R", "O">> }]

WhitelistIds == UNION {Whitelist[t] : t \in DOMAIN Whitelist}

ScaleOf(id) ==
  IF id \in WhitelistIds THEN CHOOSE t \in DOMAIN Whitelist : id \in Whitelist[t]
  ELSE "UNKNOWN"

IsNegative(x) == x.neg /\ x.m # <<>>

\* value is one the guard of the absolute scales lets through from id
PassesGuard(id, x) == ~(ScaleOf(id) \in {"KELVIN", "RANKINE"} /\ IsNegative(x))

OneBillion == 10 ^ 9

\* C1 (as claimed): for every scale S and every value x the guard lets
\* through, converting x from S to Celsius returns, converting the result
\* from Celsius back to S returns, and the final value is within 1e-9 of x.
C1_RoundTrip ==
  (/\ cpc \in {"exited", "returned", "back"}
   /\ source \in WhitelistIds
   /\ ScaleOf(target) = "CELSIUS"
   /\ PassesGuard(source, value))
  => /\ cpc # "exited"
     /\ cpc = "back" =>
          /\ back.kind = "return"
          /\ DWithin(back.value, value, 1, OneBillion)

\* C2 (as claimed, here even up to 1e-9): converting x from a scale to the
\* same scale returns x.
C2_Identity ==
  (/\ cpc \in {"exited", "returned", "back"}
   /\ source \in WhitelistIds
   /\ ScaleOf(target) = ScaleOf(source)
   /\ PassesGuard(source, value))
  => /\ outcome.kind = "return"
     /\ DWithin(outcome.value, value, 1, OneBillion)

\* C3 (as claimed, here even up to 1e-9): 0 Kelvin and 0 Rankine are both
\* -273.15 Celsius, and 0 Rankine is 0 Kelvin.
C3_AbsoluteZero ==
  (cpc \in {"exited", "returned", "back"} /\ value = DZero(FALSE))
  => /\ (ScaleOf(source) \in {"KELVIN", "RANKINE"} /\ ScaleOf(target) = "CELSIUS")
          => /\ outcome.kind = "return"
             /\ DWithin(outcome.value, DNeg(DLit(27315, 100)), 1, OneBillion)
     /\ (ScaleOf(source) = "RANKINE" /\ ScaleOf(target) = "KELVIN")
          => /\ outcome.kind = "return"
             /\ DWithin(outcome.value, DFromInt(0), 1, OneBillion)

\* the four fixed points of C4 that are exact
C4_ExactPoints ==
  /\ (ScaleOf(target) = "FAHRENHEIT" /\ value = DFromInt(0))
        => outcome = Returned(DFromInt(32))
  /\ (ScaleOf(target) = "FAHRENHEIT" /\ value = DFromInt(100))
        => outcome = Returned(DFromInt(212))
  /\ (ScaleOf(target) = "KELVIN" /\ value = DFromInt(0))
        => outcome = Returned(DLit(27315, 100))
  /\ (ScaleOf(target) = "KELVIN" /\ value = DNeg(DLit(27315, 100)))
        => outcome = Returned(DFromInt(0))

\* C4 (as claimed): from Celsius, 0 gives exactly 32 Fahrenheit, 100 gives
\* exactly 212 Fahrenheit, 0 gives exactly 273.15 Kelvin, 0 gives exactly
\* 491.67 Rankine and -273.15 gives exactly 0 Kelvin.
C4_FixedPointsExact ==
  (cpc \in {"exited", "returned", "back"} /\ ScaleOf(source) = "CELSIUS")
  => /\ C4_ExactPoints
     /\ (ScaleOf(target) = "RANKINE" /\ value = DFromInt(0))
           => outcome = Returned(DLit(49167, 100))

\* C4 (amended): the same, except that 0 Celsius gives a Rankine value that
\* is not the double 491.67 but lies below it, within 1e-9 of it.
C4_FixedPoints ==
  (cpc \in {"exited", "returned", "back"} /\ ScaleOf(source) = "CELSIUS")
  => /\ C4_ExactPoints
     /\ (ScaleOf(target) = "RANKINE" /\ value = DFromInt(0))
           => /\ outcome.kind = "return"
              /\ DLt(outcome.value, DLit(49167, 100))
              /\ DWithin(outcome.value, DLit(49167, 100), 1, OneBillion)

C4_Witness ==
  /\ cpc = "returned"
  /\ source = <<"C">>
  /\ target = <<"R">>
  /\ value = DFromInt(0)
  /\ outcome.value # DLit(49167, 100)

\* C5: with both identifiers valid, the call ends with the negative absolute
\* temperature error exactly when the source is Kelvin or Rankine and the
\* value is below zero; in every other case it returns.
C5_DomainGuard ==
  (/\ cpc \in {"exited", "returned", "back"}
   /\ source \in WhitelistIds
   /\ target \in WhitelistIds)
  => /\ (outcome = Exited("negative_absolute"))
          <=> (ScaleOf(source) \in {"KELVIN", "RANKINE"} /\ IsNegative(value))
     /\ outcome.kind = "return" <=> outcome # Exited("negative_absolute")

C5_Witness ==
  /\ cpc = "exited"
  /\ source = <<"k">>
  /\ target = <<"C">>
  /\ value = DFromInt(-1)
  /\ outcome = Exited("negative_absolute")

\* C6: Get_type maps each of the 19 whitelisted identifiers to its scale and
\* every other string to UNKNOWN.
C6_Resolution ==
  /\ Cardinality(WhitelistIds) = 19
  /\ spc \in {"resolved", "validated"} => scale_type = ScaleOf(ident)

C6_Witness ==
  /\ spc = "resolved"
  /\ ident = <<"r", "E">>
  /\ scale_type = "UNKNOWN"

\* C7: Is_valid_scale accepts an identifier exactly when Get_type does not
\* answer UNKNOWN for it.
C7_ValidIffResolved ==
  spc = "validated" => (scale_valid <=> scale_type # "UNKNOWN")

C7_Witness ==
  /\ spc = "validated"
  /\ ident = <<"R", "O">>
  /\ scale_valid
  /\ scale_type = "ROMER"

\* C8 (as claimed): an unknown source ends the call as unknown source, and a
\* known source with an unknown target ends it as unknown target, whatever
\* the value, so before the guard of the absolute scales.
C8_UnknownFirst ==
  cpc \in {"exited", "returned", "back"}
  => /\ source \notin WhitelistIds => outcome = Exited("unknown_source")
     /\ (source \in WhitelistIds /\ target \notin WhitelistIds)
          => outcome = Exited("unknown_target")

\* the transforms of section 4.2, step 3
Spec_toCelsius(t, x) ==
  CASE t = "CELSIUS" -> x
    [] t = "FAHRENHEIT" -> DMul(DSub(x, DFromInt(32)), DDiv(DFromInt(5), DFromInt(9)))
    [] t = "KELVIN" -> DSub(x, DLit(27315, 100))
    [] t = "RANKINE" ->
         DMul(DAdd(DSub(x, DNeg(DLit(45967, 100))), DFromInt(32)),
              DDiv(DFromInt(5), DFromInt(9)))
    [] t = "REAUMUR" -> DDiv(x, DDiv(DFromInt(4), DFromInt(5)))
    [] t = "DELISLE" -> DSub(DFromInt(100), DDiv(x, DDiv(DFromInt(3), DFromInt(2))))
    [] t = "NEWTON" -> DDiv(x, DLit(33, 100))
    [] t = "ROMER" -> DDiv(DSub(x, DLit(75, 10)), DDiv(DFromInt(21), DFromInt(40)))

\* the transforms of section 4.2, step 4
Spec_fromCelsius(t, c) ==
  CASE t = "CELSIUS" -> c
    [] t = "FAHRENHEIT" -> DAdd(DMul(c, DDiv(DFromInt(9), DFromInt(5))), DFromInt(32))
    [] t = "KELVIN" -> DSub(c, DNeg(DLit(27315, 100)))
    [] t = "RANKINE" ->
         DMul(DSub(c, DNeg(DLit(27315, 100))), DDiv(DFromInt(9), DFromInt(5)))
    [] t = "REAUMUR" -> DMul(c, DDiv(DFromInt(4), DFromInt(5)))
    [] t = "DELISLE" -> DMul(DSub(DFromInt(100), c), DDiv(DFromInt(3), DFromInt(2)))
    [] t = "NEWTON" -> DMul(c, DLit(33, 100))
    [] t = "ROMER" -> DAdd(DMul(c, DDiv(DFromInt(21), DFromInt(40))), DLit(75, 10))

C10_Commands ==
  { [options |-> << <<"-", "s">>, <<"C">>, <<"-", "t">>, <<"F">> >>,
     source |-> <<"C">>, target |-> <<"F">>, array |-> FALSE,
     delims |-> {}, short |-> TRUE],
    [options |-> << <<"-", "s">>, <<"C">>, <<"-", "t">>, <<"F">>,
                    <<"-", "-">> >>,
     source |-> <<"C">>, target |-> <<"F">>, array |-> FALSE,
     delims |-> {}, short |-> TRUE],
    [options |-> << <<"-", "s">>, <<"K">>, <<"-", "t">>, <<"C">> >>,
     source |-> <<"K">>, target |-> <<"C">>, array |-> FALSE,
     delims |-> {}, short |-> TRUE],
    [options |-> << <<"-", "s", "R">>, <<"-", "t", "K">> >>,
     source |-> <<"R">>, target |-> <<"K">>, array |-> FALSE,
     delims |-> {}, short |-> TRUE],
    [options |-> << <<"-", "s">>, <<"C">>, <<"-", "t">>, <<"F">>,
                    <<"-", "-", "o", "u", "t", "-", "s", "e", "p">>,
                    <<",", " ">> >>,
     source |-> <<"C">>, target |-> <<"F">>, array |-> FALSE,
     delims |-> {}, short |-> FALSE],
    [options |-> << <<"-", "-", "s", "o", "u", "r", "c", "e">>, <<"C">>,
                    <<"-", "-", "t", "a", "r", "g", "e", "t", "=", "F">>,
                    <<"-", "-", "a", "r", "r", "a", "y">> >>,
     source |-> <<"C">>, target |-> <<"F">>, array |-> TRUE,
     delims |-> {" ", "\t", "\n"}, short |-> FALSE],
    [options |-> << <<"-", "s">>, <<"C">>, <<"-", "t">>, <<"F">>,
                    <<"-", "a">> >>,
     source |-> <<"C">>, target |-> <<"F">>, array |-> TRUE,
     delims |-> {" ", "\t", "\n"}, short |-> FALSE],
    [options |-> << <<"-", "a">>, <<"-", "s">>, <<"C">>, <<"-", "t">>,
                    <<"F">> >>,
     source |-> <<"C">>, target |-> <<"F">>, array |-> TRUE,
     delims |-> {" ", "\t", "\n"}, short |-> FALSE],
    [options |-> << <<"-", "s">>, <<"C">>, <<"-", "t">>, <<"F">>,
                    <<"-", "-", "a", "r", "r">>,
                    <<"-", "-", "i", "n", "-", "s", "e", "p">>, <<",">>,
                    <<"-", "-", "o", "u", "t", "-", "s", "e", "p">>,
                    <<";">> >>,
     source |-> <<"C">>, target |-> <<"F">>, array |-> TRUE,
     delims |-> {","}, short |-> FALSE] }

\* the command line is that of c followed by temperatures only
C10_Typed(c) ==
  /\ variant = "fixed" => c.short
  /\ Len(argv) >= Len(c.options) + 1
  /\ SubSeq(argv, 2, Len(c.options) + 1) = c.options

\* the words behind the options of c
C10_Given(c) == SubSeq(argv, Len(c.options) + 2, Len(argv))

\* the tokens of all the lists ws
RECURSIVE C10_Split(_, _)
C10_Split(ws, cs) ==
  IF ws = <<>> THEN <<>> ELSE Tokens(Head(ws), 1, cs) \o C10_Split(Tail(ws), cs)

\* the lines of standard input with at least one character
C10_Lines == Tokens(stdin, 1, {"\n"})

\* the input tokens of the run, in the order of the input
C10_Tokens(c) ==
  IF C10_Given(c) # <<>>
  THEN IF c.array THEN C10_Split(C10_Given(c), c.delims) ELSE C10_Given(c)
  ELSE IF c.array THEN C10_Split(C10_Lines, c.delims) ELSE C10_Lines

C10_Valid(c, t) ==
  /\ Parse(t).kind = "return"
  /\ Convert(variant, Parse(t).value, c.source, c.target).kind = "return"

\* the conversion of token t, as %.2f shows it
C10_Shown(c, t) ==
  FormatF2(Convert(variant, Parse(t).value, c.source, c.target).value)

C10_IsResult(w) == w.fmt \in {"%.2f", "%.2f\n"}

C10_Text(w) ==
  IF w.fmt = "%.2f\n" THEN SubSeq(w.text, 1, Len(w.text) - 1) ELSE w.text

\* two displays of the same result, a zero with or without its sign
C10_Same(a, b) ==
  \/ a = b
  \/ {a, b} \subseteq {<<"0", ".", "0", "0">>, <<"-", "0", ".", "0", "0">>}

C10_InOrder(c, ts, ws) ==
  /\ Len(ws) = Len(ts)
  /\ \A k \in 1..Len(ts) : C10_Same(C10_Text(ws[k]), C10_Shown(c, ts[k]))

\* C10 (as claimed): when a run whose tokens (words of the command line,
\* tokens of its lists, or lines of standard input) are all valid has ended,
\* it has emitted exactly one result for each token, the k-th result being
\* the conversion of the k-th token.
C10_BatchOrdering ==
  pc = "exit"
  => \A c \in C10_Commands :
       (C10_Typed(c) /\ \A k \in 1..Len(C10_Tokens(c)) :
                           C10_Valid(c, C10_Tokens(c)[k]))
       => C10_InOrder(c, C10_Tokens(c), SelectSeq(stdout, C10_IsResult))

\* the three ways a valid token fails to arrive: a word that starts with "-"
\* and is not behind "--" (any such word for getopt_long, the first word
\* for getopt); the first word after -a; on standard input a last line of
\* one character without newline
C10_Lost(c) ==
  \/ /\ c.options[Len(c.options)] # <<"-", "-">>
     /\ \E k \in 1..Len(C10_Given(c)) :
          /\ IsOptionWord(C10_Given(c)[k])
          /\ variant = "fixed" => k = 1
  \/ \E k \in 1..Len(c.options) : c.options[k] = <<"-", "a">>
  \/ /\ C10_Given(c) = <<>>
     /\ Len(stdin) >= 1
     /\ stdin[Len(stdin)] # "\n"
     /\ (Len(stdin) = 1 \/ stdin[Len(stdin) - 1] = "\n")

\* C10 apart from these
C10_BatchOrderingOtherwise ==
  pc = "exit"
  => \A c \in C10_Commands :
       (/\ C10_Typed(c)
        /\ ~C10_Lost(c)
        /\ \A k \in 1..Len(C10_Tokens(c)) : C10_Valid(c, C10_Tokens(c)[k]))
       => C10_InOrder(c, C10_Tokens(c), SelectSeq(stdout, C10_IsResult))

\* the indices of the results among the writes ws
C11_Results(ws) == {k \in DOMAIN ws : C10_IsResult(ws[k])}

\* results a and b of ws follow each other
C11_Consecutive(ws, a, b) ==
  /\ a \in C11_Results(ws)
  /\ b \in C11_Results(ws)
  /\ a < b
  /\ \A k \in C11_Results(ws) : ~(a < k /\ k < b)

\* the characters of the writes ws[a], ..., ws[b]
RECURSIVE C11_Chars(_, _, _)
C11_Chars(ws, a, b) ==
  IF a > b THEN <<>> ELSE ws[a].text \o C11_Chars(ws, a + 1, b)

\* the characters written after the digits of result a and before result b
C11_Between(ws, a, b) ==
  (IF ws[a].fmt = "%.2f\n" THEN <<"\n">> ELSE <<>>)
  \o C11_Chars(ws, a + 1, b - 1)

\* the output separator: that of --out-sep, a newline without it
C11_Separator ==
  IF output_separator # <<>> THEN output_separator[1] ELSE <<"\n">>

\* C11 (as claimed): whenever more than one result has been emitted, between
\* every two consecutive results exactly the output separator was written,
\* a newline when --out-sep was not given; results are never written with
\* nothing between them.
C11_ResultSeparation ==
  \A a, b \in DOMAIN stdout :
    C11_Consecutive(stdout, a, b)
    => C11_Between(stdout, a, b) = C11_Separator

\* what does hold: when --out-sep was not given, consecutive results of
\* gradus_fixed.c and of the lines of standard input are separated by a
\* newline; when it was given, consecutive results of the same list and of
\* the command-line words in line mode are separated by it
C11_ResultSeparationOtherwise ==
  \A a, b \in DOMAIN stdout :
    (/\ C11_Consecutive(stdout, a, b)
     /\ \/ output_separator = <<>> /\ stdout[a].fmt = "%.2f\n"
        \/ output_separator # <<>> /\ b = a + 2 /\ stdout[a].fmt = "%.2f")
    => C11_Between(stdout, a, b) = C11_Separator

\* the tokens main goes through: the words getopt left over, else the lines
\* of standard input with at least one character; in array mode their parts
C12_Tokens ==
  IF operands # <<>>
  THEN IF array_mode THEN C10_Split(operands, Delims) ELSE operands
  ELSE IF array_mode THEN C10_Split(C10_Lines, Delims) ELSE C10_Lines

\* the call failed: Parse rejected the token, or the domain guard the value
C12_Failed(call) ==
  \/ call[1] = "Parse" /\ Parse(call[2]).kind = "exit"
  \/ /\ call[1] = "Convert_temperature"
     /\ Convert(variant, call[2], call[3], call[4]).kind = "exit"

C12_Converts(t) ==
  /\ Parse(t).kind = "return"
  /\ Convert(variant, Parse(t).value, source_scale[1], target_scale[1]).kind
       = "return"

\* the process ends with the first failing call
C12_Terminates ==
  \A k \in DOMAIN calls :
    C12_Failed(calls[k])
    => /\ k = Len(calls)
       /\ pc = "exit"
       /\ exit_status # 0
       /\ Len(SelectSeq(stdout, C10_IsResult)) < Len(C12_Tokens)

\* a run over tokens that ended with status 0 converted every token
C12_ZeroOnlyIfAll ==
  (/\ pc = "exit"
   /\ exit_status = 0
   /\ \A k \in DOMAIN stdout : stdout[k].fmt \notin {"table", "graph"})
  => /\ \A k \in DOMAIN C12_Tokens : C12_Converts(C12_Tokens[k])
     /\ Len(SelectSeq(stdout, C10_IsResult)) = Len(C12_Tokens)

\* C12 (as claimed): in every mode the first token that fails numeric
\* parsing or the domain guard ends the process with a non-zero exit status,
\* no token after it is parsed, converted or printed, and the exit status is
\* 0 only when every token was converted.
C12_FailFast == C12_Terminates /\ C12_ZeroOnlyIfAll

\* standard input ends with a line of one character without newline
C12_ShortLastLine ==
  /\ operands = <<>>
  /\ Len(stdin) >= 1
  /\ stdin[Len(stdin)] # "\n"
  /\ (Len(stdin) = 1 \/ stdin[Len(stdin) - 1] = "\n")

\* C12 apart from such input
C12_FailFastOtherwise ==
  /\ C12_Terminates
  /\ ~C12_ShortLastLine => C12_ZeroOnlyIfAll

\* a call that failed in array mode
C13_InvalidInArray(k) == array_mode /\ C12_Failed(calls[k])

C13_IsConvert(call) == call[1] = "Convert_temperature"

\* C13 (as claimed): in array mode, when one token of a line is invalid, the
\* remaining tokens of that line are still processed and the process ends
\* with a failure exit status: once it has ended, strtok has no token of the
\* line left to return.
C13_Continuation ==
  \A k \in DOMAIN calls :
    (C13_InvalidInArray(k) /\ pc = "exit")
    => tokens = <<>> /\ exit_status # 0

\* C13 (amended): in array mode, when one token of a line is invalid, the
\* process ends at once with the failure exit status: the failing call is
\* the last call, the results of the tokens before it have been emitted and
\* nothing of the remaining tokens of the line.
C13_StopsAtInvalid ==
  \A k \in DOMAIN calls :
    C13_InvalidInArray(k)
    => /\ k = Len(calls)
       /\ pc = "exit"
       /\ exit_status = EXIT_FAILURE
       /\ Len(SelectSeq(stdout, C10_IsResult))
            = Len(SelectSeq(SubSeq(calls, 1, k - 1), C13_IsConvert))

\* a list whose second token is invalid: the first result is out, the third
\* token is still with strtok
C13_Witness ==
  /\ pc = "exit"
  /\ array_mode
  /\ calls # <<>>
  /\ C12_Failed(calls[Len(calls)])
  /\ tokens # <<>>
  /\ SelectSeq(stdout, C10_IsResult) # <<>>

\* |x| < 0.005
C14_Small(x) == DLt(DAbs(x), DLit(5, 1000))

\* the digits of the result written last
C14_Written == C10_Text(stdout[Len(stdout)])

\* what the claim has printf write for the result x
C14_Expected(x) ==
  IF C14_Small(x) THEN <<"0", ".", "0", "0">> ELSE FormatF2(x)

\* C14 (as claimed): in every output path a conversion result r with
\* |r| < 0.005 is printed as "0.00", never as "-0.00", and a result with
\* |r| >= 0.005 is printed unchanged.
C14_NegativeZeroSuppression ==
  [][pc = "print" => C14_Written' = C14_Expected(r)]_vars

\* C14 for every result other than the negative zero itself
C14_SuppressionOtherwise ==
  [][(pc = "print" /\ ~(DIsZero(r) /\ r.neg))
     => C14_Written' = C14_Expected(r)]_vars

\* a small negative result has been replaced and written as 0.00
C14_Suppressed ==
  /\ pc # "print"
  /\ stdout # <<>>
  /\ C10_IsResult(stdout[Len(stdout)])
  /\ C14_Written = <<"0", ".", "0", "0">>
  /\ Parse(token).kind = "return"
  /\ Parse(token).value.neg
  /\ ~DIsZero(Parse(token).value)

\* what a call of Convert_temperature left behind: the result in r, or the
\* message of the exit
C15_Observed ==
  IF pc = "exit" THEN Exited(stderr[Len(stderr)]) ELSE Returned(r)

\* the globals of the settings
C15_Globals ==
  <<input_separator, output_separator, array_mode, table_output, graph_output>>

\* the calls of Convert_temperature so far
C15_Calls == SelectSeq(calls, C13_IsConvert)

\* calls with the same arguments whose results have been written gave the
\* same result
C15_SameEachTime ==
  \A j, k \in 1..Len(SelectSeq(stdout, C10_IsResult)) :
    C15_Calls[j] = C15_Calls[k]
    => C10_Text(SelectSeq(stdout, C10_IsResult)[j])
         = C10_Text(SelectSeq(stdout, C10_IsResult)[k])

C16_Rejected(k) == calls[k][1] = "Parse" /\ Parse(calls[k][2]).kind = "exit"

\* C16: every call of Convert_temperature comes right after a call of Parse
\* that accepted the token and returned the value converted; a token Parse
\* rejects (not a number, trailing characters, out of range, infinite or
\* NaN) ends the calls, so it never reaches Convert_temperature, and no
\* result is written for it.
C16_ParseBeforeConvert ==
  \A k \in DOMAIN calls :
    /\ C13_IsConvert(calls[k])
       => /\ k > 1
          /\ calls[k - 1][1] = "Parse"
          /\ Parse(calls[k - 1][2]) = Returned(calls[k][2])
    /\ C16_Rejected(k)
       => /\ k = Len(calls)
          /\ Len(SelectSeq(stdout, C10_IsResult)) = Len(C15_Calls)

\* a token was converted and the next one rejected
C16_Witness ==
  /\ Len(calls) >= 2
  /\ C16_Rejected(Len(calls))
  /\ C13_IsConvert(calls[Len(calls) - 1])
  /\ pc = "exit"

C17_IsParse(call) == call[1] = "Parse"

\* the token of a call of Parse
C17_Token(call) == call[2]

\* the tokens handed to Parse so far, in order
RECURSIVE C17_Parsed(_)
C17_Parsed(cs) ==
  IF cs = <<>> THEN <<>>
  ELSE (IF C17_IsParse(Head(cs)) THEN <<C17_Token(Head(cs))>> ELSE <<>>)
       \o C17_Parsed(Tail(cs))

\* the run got as far as the loop over the lines of standard input
C17_ReadsStdin ==
  /\ operands = <<>>
  /\ ~table_output /\ ~graph_output
  /\ source_scale # <<>> /\ target_scale # <<>>
  /\ Len(calls) >= 2
  /\ Is_valid_scale(source_scale[1]) /\ Is_valid_scale(target_scale[1])

\* C17 (as claimed): every line of standard input with at least one
\* character besides its terminator is parsed and converted or makes the run
\* fail, a last line of one character without newline included; only empty
\* lines are skipped.  So a run over standard input that ended with status 0
\* handed every such line (in array mode, its tokens) to Parse, and a run
\* that failed handed over all of them up to the failing one.
C17_OnlyEmptyLinesSkipped ==
  (pc = "exit" /\ C17_ReadsStdin)
  => /\ Len(C17_Parsed(calls)) <= Len(C12_Tokens)
     /\ C17_Parsed(calls) = SubSeq(C12_Tokens, 1, Len(C17_Parsed(calls)))
     /\ exit_status = 0 => Len(C17_Parsed(calls)) = Len(C12_Tokens)

\* C17 for input whose last line is not a single character without newline
C17_OnlyEmptyLinesSkippedOtherwise ==
  ~C12_ShortLastLine => C17_OnlyEmptyLinesSkipped

\* command c has the word -a among its options
C18_HasShortArray(c) == \E k \in 1..Len(c.options) : c.options[k] = <<"-", "a">>

\* the command line is that of c followed by words that are not options, and
\* getopt_long has gone through it
C18_Read(c) ==
  /\ variant = "enhanced"
  /\ c.array
  /\ C10_Typed(c)
  /\ \A k \in 1..Len(C10_Given(c)) : ~IsOptionWord(C10_Given(c)[k])
  /\ pc # "getopt"

\* the options of c have taken effect and its words are the temperatures
C18_InEffect(c) ==
  /\ source_scale = <<c.source>>
  /\ target_scale = <<c.target>>
  /\ array_mode
  /\ operands = C10_Given(c)
  /\ \A k \in DOMAIN stderr : stderr[k] # "getopt"

\* C18 (as claimed): the short option -a behaves like --array: it sets array
\* mode and takes no argument, so the word after -a is still read as an
\* option or a temperature; -a -s C -t F "0 100" ends up with source C,
\* target F and array mode on.
C18_ShortArrayOption ==
  \A c \in C10_Commands :
    (C18_HasShortArray(c) /\ C18_Read(c)) => C18_InEffect(c)

\* the same of --array and its abbreviation --arr, which does hold
C18_LongArrayOption ==
  \A c \in C10_Commands :
    (~C18_HasShortArray(c) /\ C18_Read(c)) => C18_InEffect(c)

\* both identifiers are given and Is_valid_scale accepts them
C19_ScalesValid ==
  /\ source_scale # <<>>
  /\ target_scale # <<>>
  /\ Is_valid_scale(source_scale[1])
  /\ Is_valid_scale(target_scale[1])

\* main has called Is_valid_scale on the source and then on the target
C19_Checked ==
  /\ Len(calls) >= 2
  /\ calls[1] = <<"Is_valid_scale", source_scale[1]>>
  /\ calls[2] = <<"Is_valid_scale", target_scale[1]>>

\* C19: in a run that is not a table or graph run main checks both scale
\* identifiers with Is_valid_scale before it parses the first token: every
\* call of Parse comes after the two checks, both passed; no result is
\* written in a run whose source or target identifier is invalid; and every
\* call of Convert_temperature has identifiers that Get_type resolves, so
\* that no run ends with one of its unknown-scale messages.
C19_ScalesBeforeTokens ==
  /\ \A k \in DOMAIN calls :
       /\ C17_IsParse(calls[k]) => (k > 2 /\ C19_Checked /\ C19_ScalesValid)
       /\ C13_IsConvert(calls[k])
          => /\ Get_type(calls[k][3]) # "UNKNOWN"
             /\ Get_type(calls[k][4]) # "UNKNOWN"
  /\ \A k \in DOMAIN stderr :
       stderr[k] \notin {"unknown_source", "unknown_target"}
  /\ ~C19_ScalesValid => SelectSeq(stdout, C10_IsResult) = <<>>

\* a run with temperatures on its command line that ended at the check of
\* the target identifier
C19_Witness ==
  /\ pc = "exit"
  /\ operands # <<>>
  /\ stderr = <<"invalid_target", "usage">>
  /\ C19_Checked
  /\ stdout = <<>>
====
